---- MODULE Spec2Model ----
(***************************************************************************)
(* Linux Kernel Visualizer: the tree filter (filterTree), the path         *)
(* resolver (findNodePath), the highlighter (HighlightText) and the        *)
(* expansion state kept by the mounted TreeNode components of the App.     *)
(*                                                                         *)
(* A string is a sequence of one-character strings.  A KernelNode is a     *)
(* record; the field ref stands for the identity of the JavaScript object  *)
(* (=== compares ref): gen = 0 for the objects of the dataset, gen > 0 for *)
(* the objects that a run of filterTree allocates.                         *)
(***************************************************************************)
EXTENDS Integers, Sequences, FiniteSets, TLC

VARIABLES
    kernelData,        \* the dataset: the canonical root (never assigned after Init)
    searchTerm,        \* App state: useState('')
    visualizerKey,     \* App state: useState(0)
    selectedNode,      \* App state: useState<KernelNode | null>(null)
    selectedNodePath,  \* App state: useState<KernelNode[]>([])
    filteredData,      \* the memoised value of useMemo(..., [searchTerm])
    isExpanded,        \* the isExpanded state of every mounted TreeNode, by key path
    lastEvent,         \* the handler that ran last and the state it ran in
    fnArgs,            \* the arguments of a call of one of the pure functions
    fnResult           \* its result

vars == << kernelData, searchTerm, visualizerKey, selectedNode, selectedNodePath,
           filteredData, isExpanded, lastEvent, fnArgs, fnResult >>

appVars == << kernelData, searchTerm, visualizerKey, selectedNode, selectedNodePath,
              filteredData, isExpanded, lastEvent >>

fnVars == << fnArgs, fnResult >>

----------------------------------------------------------------------------
(* Strings *)

\* String.prototype.toLowerCase on one character of the alphabet in use
LowerChar(c) ==
    CASE c = "A" -> "a"
      [] c = "B" -> "b"
      [] OTHER -> c

toLowerCase(s) == [i \in 1..Len(s) |-> LowerChar(s[i])]

\* the characters String.prototype.trim removes
WhiteSpace == {" ", "\n"}

RECURSIVE trimStart(_)
trimStart(s) ==
    IF s # <<>> /\ Head(s) \in WhiteSpace THEN trimStart(Tail(s)) ELSE s

RECURSIVE trimEnd(_)
trimEnd(s) ==
    IF s # <<>> /\ s[Len(s)] \in WhiteSpace
    THEN trimEnd(SubSeq(s, 1, Len(s) - 1))
    ELSE s

trim(s) == trimEnd(trimStart(s))

\* String.prototype.includes
includes(text, term) ==
    \E i \in 0..(Len(text) - Len(term)) : SubSeq(text, i + 1, i + Len(term)) = term

----------------------------------------------------------------------------
(* Nodes *)

NULL == [null |-> TRUE]

\* fnResult before and after the call
Pending == [done |-> FALSE]

Returned(value) == [done |-> TRUE, value |-> value]

\* an object of the dataset at position pos (the child indices from the root)
CanonicalRef(pos) == [gen |-> 0, pos |-> pos]

\* children: undefined and [] are both the empty sequence (every use in the
\* source goes through ?. or a truthiness test and treats them alike)
RECURSIVE MakeNode(_, _)
MakeNode(t, pos) ==
    [ name        |-> t.name,
      summary     |-> t.summary,
      description |-> t.description,
      children    |-> [i \in 1..Len(t.children) |->
                           MakeNode(t.children[i], Append(pos, i))],
      ref         |-> CanonicalRef(pos) ]

\* const isDirectory = node.children && node.children.length > 0
isDirectory(node) == Len(node.children) > 0

RECURSIVE NodesOf(_)
NodesOf(node) ==
    IF node = NULL THEN {}
    ELSE {node} \cup UNION {NodesOf(node.children[i]) : i \in 1..Len(node.children)}

----------------------------------------------------------------------------
(* filterTree *)

isMatchNameOnly(node, lowerCaseTerm) ==
    includes(toLowerCase(node.name), lowerCaseTerm)

isMatch(node, lowerCaseTerm) ==
    \/ includes(toLowerCase(node.name), lowerCaseTerm)
    \/ includes(toLowerCase(node.summary), lowerCaseTerm)
    \/ includes(toLowerCase(node.description), lowerCaseTerm)

RECURSIVE filterTree(_, _, _)

\* filterTree with term.toLowerCase() in place of term.toLowerCase().trim()
filterTreeNoTrim(node, term, gen) ==
    LET lowerCaseTerm == toLowerCase(term)
    IN  IF lowerCaseTerm = <<>> THEN node
        ELSE
          LET mapped == [i \in 1..Len(node.children) |->
                             filterTree(node.children[i], lowerCaseTerm, gen)]
              filteredChildren == SelectSeq(mapped, LAMBDA child : child # NULL)
          IN  IF isMatch(node, lowerCaseTerm) \/ Len(filteredChildren) > 0
              THEN [node EXCEPT !.children = filteredChildren,
                                !.ref = [gen |-> gen, pos |-> node.ref.pos]]
              ELSE NULL

\* filterTree that keeps a node whatever isMatch and filteredChildren are
filterTreeNeverNull(node, term, gen) ==
    LET lowerCaseTerm == trim(toLowerCase(term))
    IN  IF lowerCaseTerm = <<>> THEN node
        ELSE
          LET mapped == [i \in 1..Len(node.children) |->
                             filterTree(node.children[i], lowerCaseTerm, gen)]
              filteredChildren == SelectSeq(mapped, LAMBDA child : child # NULL)
          IN  [node EXCEPT !.children = filteredChildren,
                           !.ref = [gen |-> gen, pos |-> node.ref.pos]]

\* filterTree that assigns node.children = filteredChildren and returns node
filterTreeInPlace(node, term, gen) ==
    LET lowerCaseTerm == trim(toLowerCase(term))
    IN  IF lowerCaseTerm = <<>> THEN node
        ELSE
          LET mapped == [i \in 1..Len(node.children) |->
                             filterTree(node.children[i], lowerCaseTerm, gen)]
              filteredChildren == SelectSeq(mapped, LAMBDA child : child # NULL)
          IN  IF isMatch(node, lowerCaseTerm) \/ Len(filteredChildren) > 0
              THEN [node EXCEPT !.children = filteredChildren]
              ELSE NULL

\* filterTree that puts the kept children in the opposite order
filterTreeReversedChildren(node, term, gen) ==
    LET lowerCaseTerm == trim(toLowerCase(term))
    IN  IF lowerCaseTerm = <<>> THEN node
        ELSE
          LET mapped == [i \in 1..Len(node.children) |->
                             filterTree(node.children[i], lowerCaseTerm, gen)]
              kept == SelectSeq(mapped, LAMBDA child : child # NULL)
              filteredChildren == [i \in 1..Len(kept) |-> kept[Len(kept) + 1 - i]]
          IN  IF isMatch(node, lowerCaseTerm) \/ Len(filteredChildren) > 0
              THEN [node EXCEPT !.children = filteredChildren,
                                !.ref = [gen |-> gen, pos |-> node.ref.pos]]
              ELSE NULL

\* gen: the allocation that the objects built by this run come from
filterTree(node, term, gen) ==
    LET lowerCaseTerm == trim(toLowerCase(term))
    IN  IF lowerCaseTerm = <<>> THEN node
        ELSE
          LET mapped == [i \in 1..Len(node.children) |->
                             filterTree(node.children[i], lowerCaseTerm, gen)]
              filteredChildren == SelectSeq(mapped, LAMBDA child : child # NULL)
          IN  IF isMatch(node, lowerCaseTerm) \/ Len(filteredChildren) > 0
              THEN [node EXCEPT !.children = filteredChildren,
                                !.ref = [gen |-> gen, pos |-> node.ref.pos]]
              ELSE NULL

----------------------------------------------------------------------------
(* findNodePath *)

\* a and b have the same texts and as many children
sameValue(a, b) ==
    /\ a.name = b.name
    /\ a.summary = b.summary
    /\ a.description = b.description
    /\ Len(a.children) = Len(b.children)

\* a === b on node objects
sameObject(a, b) == a.ref = b.ref

RECURSIVE search(_, _, _)
RECURSIVE searchChildren(_, _, _, _)

\* the for loop over node.children from index i on; path is the stack so far
searchChildren(children, i, targetNode, path) ==
    IF i > Len(children) THEN [found |-> FALSE, path |-> path]
    ELSE LET r == search(children[i], targetNode, path)
         IN  IF r.found THEN r
             ELSE searchChildren(children, i + 1, targetNode, r.path)

searchNoPop(node, targetNode, path) ==
    LET pushed == Append(path, node)
    IN  IF sameObject(node, targetNode) THEN [found |-> TRUE, path |-> pushed]
        ELSE searchChildren(node.children, 1, targetNode, pushed)

search(node, targetNode, path) ==
    LET pushed == Append(path, node)
    IN  IF sameObject(node, targetNode) THEN [found |-> TRUE, path |-> pushed]
        ELSE LET r == searchChildren(node.children, 1, targetNode, pushed)
             IN  IF r.found THEN r
                 ELSE [found |-> FALSE, path |-> SubSeq(r.path, 1, Len(r.path) - 1)]

findNodePath(root, targetNode) == search(root, targetNode, <<>>).path

----------------------------------------------------------------------------
(* HighlightText *)

\* the characters of the class [.*+?^${}()|[\]\\] that the alphabet in use has
RegExpSpecial == {".", "\\"}

\* highlight.replace(/[.*+?^${}()|[\]\\]/g, '\\$&')
RECURSIVE escapeRegExp(_)
escapeRegExp(s) ==
    IF s = <<>> THEN <<>>
    ELSE (IF Head(s) \in RegExpSpecial THEN << "\\", Head(s) >> ELSE << Head(s) >>)
         \o escapeRegExp(Tail(s))

\* new RegExp(`(${source})`, 'gi'): the atoms of the one capture group.
\* "\\" followed by c is the literal c, "." is any character but a line
\* break, every other character is a literal.
RECURSIVE RegExpAtoms(_)
RegExpAtoms(source) ==
    IF source = <<>> THEN <<>>
    ELSE IF Head(source) = "\\" /\ Len(source) >= 2
         THEN << [any |-> FALSE, char |-> source[2]] >> \o RegExpAtoms(Tail(Tail(source)))
         ELSE << [any |-> Head(source) = ".", char |-> Head(source)] >>
              \o RegExpAtoms(Tail(source))

\* one atom against one character under the i flag
AtomMatches(atom, c) ==
    IF atom.any THEN c # "\n" ELSE LowerChar(atom.char) = LowerChar(c)

\* the group matches s from index q (0-based) on
MatchesAt(atoms, s, q) ==
    /\ q + Len(atoms) <= Len(s)
    /\ \A k \in 1..Len(atoms) : AtomMatches(atoms[k], s[q + k])

\* String.prototype.split with the regex: the text before each match, the
\* capture, ..., the text after the last match (p: end of the last match,
\* q: the index tried next)
RECURSIVE splitFrom(_, _, _, _)

\* split with a regex that has no capture group: the matches are left out
splitFromNoCapture(s, atoms, p, q) ==
    IF q >= Len(s) THEN << SubSeq(s, p + 1, Len(s)) >>
    ELSE IF MatchesAt(atoms, s, q) /\ q + Len(atoms) # p
         THEN << SubSeq(s, p + 1, q) >>
              \o splitFrom(s, atoms, q + Len(atoms), q + Len(atoms))
         ELSE splitFrom(s, atoms, p, q + 1)

splitFrom(s, atoms, p, q) ==
    IF q >= Len(s) THEN << SubSeq(s, p + 1, Len(s)) >>
    ELSE IF MatchesAt(atoms, s, q) /\ q + Len(atoms) # p
         THEN << SubSeq(s, p + 1, q), SubSeq(s, q + 1, q + Len(atoms)) >>
              \o splitFrom(s, atoms, q + Len(atoms), q + Len(atoms))
         ELSE splitFrom(s, atoms, p, q + 1)

splitRegExp(s, atoms) == splitFrom(s, atoms, 0, 0)

\* text.split('\n')
RECURSIVE splitLines(_)
splitLines(s) ==
    IF \E i \in 1..Len(s) : s[i] = "\n"
    THEN LET i == CHOOSE j \in 1..Len(s) :
                      s[j] = "\n" /\ \A k \in 1..(j - 1) : s[k] # "\n"
         IN  << SubSeq(s, 1, i - 1) >> \o splitLines(SubSeq(s, i + 1, Len(s)))
    ELSE << s >>

\* regex.test(part) that leaves lastIndex where it is when there is no match
regexTestKeepsLastIndex(atoms, part, lastIndex) ==
    LET hits == {i \in lastIndex..Len(part) : MatchesAt(atoms, part, i)}
    IN  IF lastIndex > Len(part) \/ hits = {}
        THEN [result |-> FALSE, lastIndex |-> lastIndex]
        ELSE LET i == CHOOSE h \in hits : \A g \in hits : h <= g
             IN  [result |-> TRUE, lastIndex |-> i + Len(atoms)]

\* regex.test(part) of a global regex whose lastIndex is lastIndex
regexTest(atoms, part, lastIndex) ==
    LET hits == {i \in lastIndex..Len(part) : MatchesAt(atoms, part, i)}
    IN  IF lastIndex > Len(part) \/ hits = {}
        THEN [result |-> FALSE, lastIndex |-> 0]
        ELSE LET i == CHOOSE h \in hits : \A g \in hits : h <= g
             IN  [result |-> TRUE, lastIndex |-> i + Len(atoms)]

\* parts.map(highlightPart) from the i-th part on; the regex is shared, so
\* lastIndex goes from one call to the next
RECURSIVE highlightParts(_, _, _, _)
highlightParts(atoms, parts, i, lastIndex) ==
    IF i > Len(parts) THEN [spans |-> <<>>, lastIndex |-> lastIndex]
    ELSE LET t == regexTest(atoms, parts[i], lastIndex)
             rest == highlightParts(atoms, parts, i + 1, t.lastIndex)
         IN  [spans |-> << [text |-> parts[i], matched |-> t.result] >> \o rest.spans,
              lastIndex |-> rest.lastIndex]

\* lines.map(line => line.split(regex).map(highlightPart)) from the i-th line on
RECURSIVE highlightLines(_, _, _, _)
highlightLines(atoms, lines, i, lastIndex) ==
    IF i > Len(lines) THEN <<>>
    ELSE LET h == highlightParts(atoms, splitRegExp(lines[i], atoms), 1, lastIndex)
         IN  << h.spans >> \o highlightLines(atoms, lines, i + 1, h.lastIndex)

\* the result: one sequence of spans for each <p> (as = "p"), or one sequence
\* of spans (as = "span")
HighlightText(text, highlight, as) ==
    IF trim(highlight) = <<>>
    THEN IF as = "p"
         THEN [i \in 1..Len(splitLines(text)) |->
                   << [text |-> splitLines(text)[i], matched |-> FALSE] >>]
         ELSE << << [text |-> text, matched |-> FALSE] >> >>
    ELSE LET regex == RegExpAtoms(escapeRegExp(highlight))
         IN  IF as = "p"
             THEN highlightLines(regex, splitLines(text), 1, 0)
             ELSE highlightLines(regex, << text >>, 1, 0)

\* the rendered text has a <strong>
hasMatched(rendered) ==
    \E i \in 1..Len(rendered) : \E j \in 1..Len(rendered[i]) : rendered[i][j].matched

----------------------------------------------------------------------------
(* The dataset and the terms typed into the search box *)

Leaf(name, summary, description) ==
    [name |-> name, summary |-> summary, description |-> description, children |-> <<>>]

Dir(name, summary, description, children) ==
    [name |-> name, summary |-> summary, description |-> description, children |-> children]

\* linux{ kernel{ sched.c }, mm }: the scenario tree, in a three-letter alphabet
ScenarioTree ==
    Dir(<<"c">>, <<>>, <<>>,
        << Dir(<<"a">>, <<"c">>, <<>>,
               << Leaf(<<"B">>, <<>>, <<"c", "\n", "b">>) >>),
           Leaf(<<"a">>, <<"a">>, <<>>) >>)

\* four levels deep; filtering by "a" moves the directory from index 1 to index 0
DeepTree ==
    Dir(<<"c">>, <<>>, <<>>,
        << Leaf(<<"b">>, <<>>, <<>>),
           Dir(<<"a">>, <<>>, <<>>,
               << Dir(<<"A">>, <<"b">>, <<>>,
                      << Leaf(<<"b">>, <<>>, <<"a">>) >>) >>) >>)

\* structurally identical nodes at different positions
TwinTree ==
    Dir(<<"a">>, <<>>, <<>>,
        << Leaf(<<"b">>, <<>>, <<>>),
           Dir(<<"b">>, <<>>, <<>>, << Leaf(<<"b">>, <<>>, <<>>) >>) >>)

AppTrees == { MakeNode(t, <<>>) : t \in {ScenarioTree, DeepTree, TwinTree} }

\* what the <input type="search"> can hold (one line, so no line break)
SearchTerms ==
    { <<>>, <<" ">>, <<"b">>, <<"B", " ">>, <<"a">>, <<".">> }

MaxVisualizerKey == 2

----------------------------------------------------------------------------
(* The mounted TreeNode components *)

NoTreeNodes == << >>

\* key={`${child.name}-${index}`}
ChildKey(child, index) == << child.name, index >>

\* the node that the TreeNode with key path kp renders
RECURSIVE NodeAt(_, _)
NodeAt(node, kp) ==
    IF kp = <<>> THEN node ELSE NodeAt(node.children[Head(kp)[2] + 1], Tail(kp))

\* One render of a TreeNode and of the TreeNodes below it: a component that was
\* mounted under the same keys keeps its state, a new one starts from
\* useState(isRoot || startExpanded); the children are rendered only under
\* isExpanded && isDirectory.
RECURSIVE TreeNode(_, _, _, _, _)
TreeNode(node, kp, isRoot, startExpanded, mounted) ==
    LET expanded == IF kp \in DOMAIN mounted THEN mounted[kp]
                    ELSE (isRoot \/ startExpanded)
    IN  {<< kp, expanded >>} \cup
        IF expanded /\ isDirectory(node)
        THEN UNION { TreeNode(node.children[i],
                              Append(kp, ChildKey(node.children[i], i - 1)),
                              FALSE, startExpanded, mounted)
                     : i \in 1..Len(node.children) }
        ELSE {}

\* <TreeNode node={data} isLast={true} isRoot={true} startExpanded={searchActive} .../>
KernelVisualizer(data, searchActive, mounted) ==
    LET rendered == TreeNode(data, <<>>, TRUE, searchActive, mounted)
    IN  [kp \in {r[1] : r \in rendered} |-> << kp, TRUE >> \in rendered]

\* The tree pane of App's render: the visualizer or the "No results" message.
\* A visualizer under another key, or one that was not there, is mounted afresh.
AppRender(data, key, term, prevData, prevKey, mounted) ==
    IF data = NULL THEN NoTreeNodes
    ELSE KernelVisualizer(data, Len(term) > 0,
                          IF prevData = NULL \/ prevKey # key THEN NoTreeNodes
                          ELSE mounted)

----------------------------------------------------------------------------
(* App *)

GensOf(nodes) == {n.ref.gen : n \in nodes}

\* the objects a run of filterTree allocates differ from every live object
NewGen ==
    LET live == GensOf(NodesOf(filteredData) \cup NodesOf(selectedNode)
                       \cup {selectedNodePath[i] : i \in 1..Len(selectedNodePath)})
    IN  CHOOSE g \in 1..(Cardinality(live) + 1) :
            /\ g \notin live
            /\ \A h \in 1..(g - 1) : h \in live

\* useMemo without searchTerm among its dependencies: the first value stays
filteredDataOfStale(term, gen) == filteredData

\* useMemo(() => { if (!searchTerm) return kernelData; return filterTree(...) })
filteredDataOf(term, gen) ==
    IF term = <<>> THEN kernelData ELSE filterTree(kernelData, term, gen)

\* the state a handler runs in
Snapshot ==
    [ kernelData       |-> kernelData,
      visualizerKey    |-> visualizerKey,
      searchTerm       |-> searchTerm,
      selectedNode     |-> selectedNode,
      selectedNodePath |-> selectedNodePath,
      filteredData     |-> filteredData,
      isExpanded       |-> isExpanded ]

Event(handler, kp) == [handler |-> handler, kp |-> kp, before |-> Snapshot]

Init ==
    /\ kernelData \in AppTrees
    /\ searchTerm = <<>>
    /\ visualizerKey = 0
    /\ selectedNode = NULL
    /\ selectedNodePath = <<>>
    /\ filteredData = kernelData
    /\ isExpanded = AppRender(kernelData, 0, <<>>, NULL, 0, NoTreeNodes)
    /\ lastEvent = Event("mount", <<>>)
    /\ fnArgs = NULL
    /\ fnResult = Pending

\* handleSearchChange without setSelectedNodePath([])
handleSearchChangeKeepsPath(value) ==
    /\ value # searchTerm
    /\ searchTerm' = value
    /\ selectedNode' = NULL
    /\ selectedNodePath' = selectedNodePath
    /\ filteredData' = filteredDataOf(value, NewGen)
    /\ isExpanded' = AppRender(filteredData', visualizerKey, value,
                               filteredData, visualizerKey, isExpanded)
    /\ lastEvent' = Event("handleSearchChange", <<>>)
    /\ UNCHANGED << kernelData, visualizerKey, fnVars >>

\* handleSearchChange without setSelectedNode(null)
handleSearchChangeKeepsSelectedNode(value) ==
    /\ value # searchTerm
    /\ searchTerm' = value
    /\ selectedNode' = selectedNode
    /\ selectedNodePath' = <<>>
    /\ filteredData' = filteredDataOf(value, NewGen)
    /\ isExpanded' = AppRender(filteredData', visualizerKey, value,
                               filteredData, visualizerKey, isExpanded)
    /\ lastEvent' = Event("handleSearchChange", <<>>)
    /\ UNCHANGED << kernelData, visualizerKey, fnVars >>

\* handleSearchChange that clears the selection only if the node is gone
handleSearchChangeKeepsSelection(value) ==
    /\ value # searchTerm
    /\ searchTerm' = value
    /\ filteredData' = filteredDataOf(value, NewGen)
    /\ IF selectedNode \in NodesOf(filteredData')
       THEN UNCHANGED << selectedNode, selectedNodePath >>
       ELSE selectedNode' = NULL /\ selectedNodePath' = <<>>
    /\ isExpanded' = AppRender(filteredData', visualizerKey, value,
                               filteredData, visualizerKey, isExpanded)
    /\ lastEvent' = Event("handleSearchChange", <<>>)
    /\ UNCHANGED << kernelData, visualizerKey, fnVars >>

handleSearchChange(value) ==
    /\ value # searchTerm
    /\ searchTerm' = value
    /\ selectedNode' = NULL
    /\ selectedNodePath' = <<>>
    /\ filteredData' = filteredDataOf(value, NewGen)
    /\ isExpanded' = AppRender(filteredData', visualizerKey, value,
                               filteredData, visualizerKey, isExpanded)
    /\ lastEvent' = Event("handleSearchChange", <<>>)
    /\ UNCHANGED << kernelData, visualizerKey, fnVars >>

handleNodeSelect(node) ==
    /\ selectedNode' = node
    /\ selectedNodePath' = findNodePath(kernelData, node)

\* the click or key press on the TreeNode with key path kp
handleInteraction(kp) ==
    /\ kp \in DOMAIN isExpanded
    /\ LET node == NodeAt(filteredData, kp)
       IN  /\ handleNodeSelect(node)
           /\ isExpanded' =
                AppRender(filteredData, visualizerKey, searchTerm,
                          filteredData, visualizerKey,
                          IF isDirectory(node)
                          THEN [isExpanded EXCEPT ![kp] = ~ @]
                          ELSE isExpanded)
    /\ lastEvent' = Event("handleInteraction", kp)
    /\ UNCHANGED << kernelData, searchTerm, visualizerKey, filteredData, fnVars >>

\* the click on the i-th button of the breadcrumb of DetailPanel
breadcrumbClick(i) ==
    /\ selectedNode # NULL
    /\ i \in 1..Len(selectedNodePath)
    /\ handleNodeSelect(selectedNodePath[i])
    /\ lastEvent' = Event("breadcrumbClick", <<>>)
    /\ UNCHANGED << kernelData, searchTerm, visualizerKey, filteredData,
                    isExpanded, fnVars >>

\* handleCollapseAll without setVisualizerKey(prevKey => prevKey + 1)
handleCollapseAllSameKey ==
    /\ visualizerKey < MaxVisualizerKey
    /\ searchTerm' = <<>>
    /\ selectedNode' = NULL
    /\ selectedNodePath' = <<>>
    /\ visualizerKey' = visualizerKey
    /\ filteredData' = filteredDataOf(searchTerm', NewGen)
    /\ isExpanded' = AppRender(filteredData', visualizerKey', searchTerm',
                               filteredData, visualizerKey, isExpanded)
    /\ lastEvent' = Event("handleCollapseAll", <<>>)
    /\ UNCHANGED << kernelData, fnVars >>

handleCollapseAll ==
    /\ visualizerKey < MaxVisualizerKey
    /\ searchTerm' = <<>>
    /\ selectedNode' = NULL
    /\ selectedNodePath' = <<>>
    /\ visualizerKey' = visualizerKey + 1
    /\ filteredData' = filteredDataOf(searchTerm', NewGen)
    /\ isExpanded' = AppRender(filteredData', visualizerKey', searchTerm',
                               filteredData, visualizerKey, isExpanded)
    /\ lastEvent' = Event("handleCollapseAll", <<>>)
    /\ UNCHANGED << kernelData, fnVars >>

Next ==
    \/ \E value \in SearchTerms : handleSearchChange(value)
    \/ \E kp \in DOMAIN isExpanded : handleInteraction(kp)
    \/ \E i \in 1..Len(selectedNodePath) : breadcrumbClick(i)
    \/ handleCollapseAll

Spec == Init /\ [][Next]_vars

----------------------------------------------------------------------------
(* The pure functions on their own: the arguments are drawn by the initial *)
(* predicate, the one action makes the call                                *)

MaxNodes == 3
MaxTextLen == 3
MaxTermLen == 2

\* texts of a node: a match in the name, in the summary, in the description, nowhere
NodeTexts ==
    { [name |-> <<"B">>, summary |-> <<>>,         description |-> <<>>],
      [name |-> <<"c">>, summary |-> <<"A", "b">>, description |-> <<>>],
      [name |-> <<"c">>, summary |-> <<>>,         description |-> <<"c", "\n", "a">>],
      [name |-> <<"c">>, summary |-> <<>>,         description |-> <<>>] }

RECURSIVE TreesOfSize(_)
RECURSIVE ForestsOfSize(_)

\* the well-formed trees of n nodes, the ordered forests of n nodes
TreesOfSize(n) ==
    { Dir(l.name, l.summary, l.description, f) :
          l \in NodeTexts, f \in ForestsOfSize(n - 1) }

ForestsOfSize(n) ==
    IF n = 0 THEN { <<>> }
    ELSE UNION { { << t >> \o f : t \in TreesOfSize(k), f \in ForestsOfSize(n - k) }
                 : k \in 1..n }

FnTrees == { MakeNode(t, <<>>) : t \in UNION { TreesOfSize(n) : n \in 1..MaxNodes } }

FnTerms ==
    { <<>>, <<" ">>, <<"b">>, <<" ", "B", " ">>, <<"a">>, <<"A", "B">>, <<".">> }

SeqsUpTo(S, n) == UNION { [1..k -> S] : k \in 0..n }

HighlightTexts == SeqsUpTo({"a", "A", " ", ".", "\n"}, MaxTextLen)

HighlightTerms == SeqsUpTo({"a", "A", " ", "."}, MaxTermLen)

\* a node with text t in one field and a text no term occurs in elsewhere
HighlightNodes ==
    { MakeNode(Leaf(t, <<"b">>, <<"b">>), <<>>) : t \in HighlightTexts \ {<<>>} }
    \cup { MakeNode(Leaf(<<"b">>, t, <<"b">>), <<>>) : t \in HighlightTexts }
    \cup { MakeNode(Leaf(<<"b">>, <<"b">>, t), <<>>) : t \in HighlightTexts }

\* an object with the fields of node that is not node
CopyOf(node) == [node EXCEPT !.ref = [gen |-> 1, pos |-> node.ref.pos]]

\* the targets tried on root: its nodes, copies of them, a node of another tree
PathTargets(root) ==
    NodesOf(root) \cup { CopyOf(n) : n \in NodesOf(root) }
    \cup { MakeNode(Leaf(<<"c">>, <<>>, <<>>), << 0 >>) }

AppIdle ==
    /\ kernelData = MakeNode(ScenarioTree, <<>>)
    /\ searchTerm = <<>>
    /\ visualizerKey = 0
    /\ selectedNode = NULL
    /\ selectedNodePath = <<>>
    /\ filteredData = kernelData
    /\ isExpanded = NoTreeNodes
    /\ lastEvent = Event("mount", <<>>)

InitFilter ==
    /\ AppIdle
    /\ fnArgs \in [node : FnTrees, term : FnTerms]
    /\ fnResult = Pending

callFilterTree ==
    /\ fnResult = Pending
    /\ fnResult' = Returned(filterTree(fnArgs.node, fnArgs.term, 1))
    /\ UNCHANGED << appVars, fnArgs >>

SpecFilter == InitFilter /\ [][callFilterTree]_vars

\* the behaviours of the App together with the calls of filterTree on its own
InitFilterAndApp == Init \/ InitFilter

NextFilterAndApp ==
    \/ fnArgs = NULL /\ Next
    \/ fnArgs # NULL /\ callFilterTree

SpecFilterAndApp == InitFilterAndApp /\ [][NextFilterAndApp]_vars

InitPath ==
    /\ AppIdle
    /\ \E root \in FnTrees : \E targetNode \in PathTargets(root) :
           fnArgs = [root |-> root, targetNode |-> targetNode]
    /\ fnResult = Pending

callFindNodePath ==
    /\ fnResult = Pending
    /\ fnResult' = Returned(findNodePath(fnArgs.root, fnArgs.targetNode))
    /\ UNCHANGED << appVars, fnArgs >>

SpecPath == InitPath /\ [][callFindNodePath]_vars

InitHighlight ==
    /\ AppIdle
    /\ fnArgs \in [node : HighlightNodes, term : HighlightTerms]
    /\ fnResult = Pending

\* what TreeNode and DetailPanel render of a node under a search term
callHighlightText ==
    /\ fnResult = Pending
    /\ fnResult' = Returned(
         [ name        |-> HighlightText(fnArgs.node.name, fnArgs.term, "span"),
           summary     |-> HighlightText(fnArgs.node.summary, fnArgs.term, "span"),
           description |-> HighlightText(fnArgs.node.description, fnArgs.term, "p") ])
    /\ UNCHANGED << appVars, fnArgs >>

SpecHighlight == InitHighlight /\ [][callHighlightText]_vars

----------------------------------------------------------------------------
(* Observations used by the properties *)

\* text contains term, whatever the case of the letters
ContainsIgnoringCase(text, term) ==
    \E i \in 0..(Len(text) - Len(term)) :
        \A k \in 1..Len(term) : LowerChar(text[i + k]) = LowerChar(term[k])

\* the node's own name, summary or description contains the trimmed term
SelfMatches(node, term) ==
    \/ ContainsIgnoringCase(node.name, trim(term))
    \/ ContainsIgnoringCase(node.summary, trim(term))
    \/ ContainsIgnoringCase(node.description, trim(term))

PositionsOf(node) == { n.ref.pos : n \in NodesOf(node) }

ChildrenOf(node) == { node.children[i] : i \in 1..Len(node.children) }

\* target is one of the objects of the tree under root
Reachable(root, target) == \E n \in NodesOf(root) : n.ref = target.ref

\* the key paths of all the nodes of a tree, mounted or not
RECURSIVE KeyPathsFrom(_, _)
KeyPathsFrom(node, kp) ==
    {kp} \cup UNION { KeyPathsFrom(node.children[i],
                                   Append(kp, ChildKey(node.children[i], i - 1)))
                      : i \in 1..Len(node.children) }

KeyPathsOf(data) == IF data = NULL THEN {} ELSE KeyPathsFrom(data, <<>>)

\* the expansion state of the node at kp when the mounted components are
\* mounted and the search term is term: its component's state, or the state
\* its component starts in when it is not mounted
ExpansionIn(mounted, term, kp) ==
    IF kp \in DOMAIN mounted THEN mounted[kp] ELSE (kp = <<>> \/ Len(term) > 0)

ExpansionOf(kp) == ExpansionIn(isExpanded, searchTerm, kp)

ExpansionBefore(kp) ==
    ExpansionIn(lastEvent.before.isExpanded, lastEvent.before.searchTerm, kp)

----------------------------------------------------------------------------
(* Properties *)

\* C1: after filterTree(node, term) with a term that is not blank, a node of
\* the input tree is in the result exactly if its own name, summary or
\* description contains the trimmed term (case-insensitively) or one of its
\* children is in the result; every node of the result is a node of the
\* input, with its texts, below the node it was below.
C1_FilterTreeKeepsExactlyTheMatches ==
    (fnResult.done /\ trim(fnArgs.term) # <<>>) =>
        LET kept == PositionsOf(fnResult.value)
        IN  /\ \A n \in NodesOf(fnArgs.node) :
                  n.ref.pos \in kept
                  <=> \/ SelfMatches(n, fnArgs.term)
                      \/ \E c \in ChildrenOf(n) : c.ref.pos \in kept
            /\ \A m \in NodesOf(fnResult.value) :
                  /\ \E n \in NodesOf(fnArgs.node) :
                        /\ n.ref.pos = m.ref.pos
                        /\ sameValue(n, [m EXCEPT !.children = n.children])
                  /\ \A c \in ChildrenOf(m) :
                        \E i \in 1..MaxNodes : c.ref.pos = Append(m.ref.pos, i)

\* a run that dropped a node and kept a node that does not match itself
C1_Witness ==
    /\ fnResult.done
    /\ trim(fnArgs.term) # <<>>
    /\ fnResult.value # NULL
    /\ \E n \in NodesOf(fnArgs.node) : n.ref.pos \notin PositionsOf(fnResult.value)
    /\ \E m \in NodesOf(fnResult.value) : ~ SelfMatches(m, fnArgs.term)

\* C2: whenever a node is selected while the trimmed search term is not
\* empty, the breadcrumb path is not empty, starts at the canonical root and
\* ends at the position of the selected node.
C2_SelectionUnderFilterHasPath ==
    (trim(searchTerm) # <<>> /\ selectedNode # NULL) =>
        /\ selectedNodePath # <<>>
        /\ selectedNodePath[1].ref = kernelData.ref
        /\ selectedNodePath[Len(selectedNodePath)].ref.pos = selectedNode.ref.pos

\* C3: right after the search term went from empty to a term with a match,
\* every node of the displayed tree is expanded.
C3_SearchExpandsEveryNode ==
    ( /\ lastEvent.handler = "handleSearchChange"
      /\ lastEvent.before.searchTerm = <<>>
      /\ trim(searchTerm) # <<>>
      /\ filteredData # NULL )
    => \A kp \in KeyPathsOf(filteredData) : ExpansionOf(kp)

\* C4: right after handleCollapseAll the search term is empty, nothing is
\* selected, the breadcrumb path is empty, the canonical tree is displayed,
\* the root is expanded and every other node is collapsed.
C4_CollapseAllResets ==
    lastEvent.handler = "handleCollapseAll" =>
        /\ searchTerm = <<>>
        /\ selectedNode = NULL
        /\ selectedNodePath = <<>>
        /\ filteredData = kernelData
        /\ <<>> \in DOMAIN isExpanded /\ isExpanded[<<>>]
        /\ \A kp \in KeyPathsOf(filteredData) \ {<<>>} : ~ ExpansionOf(kp)

\* handleCollapseAll ran while a search was on, a node was selected and a
\* node other than the root was expanded
C4_Witness ==
    /\ lastEvent.handler = "handleCollapseAll"
    /\ lastEvent.before.searchTerm # <<>>
    /\ lastEvent.before.selectedNode # NULL
    /\ \E kp \in DOMAIN lastEvent.before.isExpanded :
           kp # <<>> /\ lastEvent.before.isExpanded[kp]

\* C5: whenever a tree is displayed, its root is expanded.
C5_RootIsExpanded ==
    filteredData # NULL => (<<>> \in DOMAIN isExpanded /\ isExpanded[<<>>])

\* C6: for a target that is a node of the tree, findNodePath returns a path
\* that starts at the root, ends at the target (the same object) and in
\* which each element is the parent of the next.
C6_PathOfReachableNode ==
    (fnResult.done /\ Reachable(fnArgs.root, fnArgs.targetNode)) =>
        LET path == fnResult.value
        IN  /\ Len(path) >= 1
            /\ path[1].ref = fnArgs.root.ref
            /\ path[Len(path)].ref = fnArgs.targetNode.ref
            /\ \A i \in 1..(Len(path) - 1) :
                   \E c \in ChildrenOf(path[i]) : c.ref = path[i + 1].ref

\* the target is the second of two children with the same texts
C6_Witness ==
    /\ fnResult.done
    /\ Reachable(fnArgs.root, fnArgs.targetNode)
    /\ Len(fnArgs.root.children) = 2
    /\ fnArgs.targetNode.ref = fnArgs.root.children[2].ref
    /\ sameValue(fnArgs.root.children[1], fnArgs.root.children[2])
    /\ Len(fnResult.value) = 2

\* C7: for a term that is not blank, the node matches the term under
\* filterTree's isMatch exactly if HighlightText with that term marks a part
\* of its name, of its summary or of its description as matched.
C7_MatchedExactlyIfHighlighted ==
    (fnResult.done /\ trim(fnArgs.term) # <<>>) =>
        ( isMatch(fnArgs.node, trim(toLowerCase(fnArgs.term)))
          <=> \/ hasMatched(fnResult.value.name)
              \/ hasMatched(fnResult.value.summary)
              \/ hasMatched(fnResult.value.description) )

\* C8: right after the search term went from a term that is not blank to
\* empty, every node but the root is collapsed.
C8_ClearingCollapsesEveryNode ==
    ( /\ trim(lastEvent.before.searchTerm) # <<>>
      /\ lastEvent.handler \in {"handleSearchChange", "handleCollapseAll"}
      /\ searchTerm = <<>> )
    => \A kp \in KeyPathsOf(filteredData) \ {<<>>} : ~ ExpansionOf(kp)

\* C9: right after handleInteraction on the node N at key path kp, N is the
\* selected node, the expansion state of N has flipped exactly if N has a
\* child, and the expansion state of every other node of the displayed tree
\* and the search term are what they were.
C9_InteractionFrame ==
    lastEvent.handler = "handleInteraction" =>
        LET kp == lastEvent.kp
            N  == NodeAt(filteredData, kp)
        IN  /\ selectedNode = N
            /\ (ExpansionOf(kp) # ExpansionBefore(kp)) <=> isDirectory(N)
            /\ \A other \in KeyPathsOf(filteredData) \ {kp} :
                   ExpansionOf(other) = ExpansionBefore(other)
            /\ searchTerm = lastEvent.before.searchTerm

\* C10: for a target that is not one of the objects of the tree, findNodePath
\* returns the empty sequence.
C10_PathOfUnreachableNode ==
    (fnResult.done /\ ~ Reachable(fnArgs.root, fnArgs.targetNode)) =>
        fnResult.value = <<>>

\* the target is a copy of a node two levels down
C10_Witness ==
    /\ fnResult.done
    /\ ~ Reachable(fnArgs.root, fnArgs.targetNode)
    /\ \E n \in NodesOf(fnArgs.root) :
           Len(n.ref.pos) = 2 /\ fnArgs.targetNode = CopyOf(n)

\* C11: for a term that is empty after trimming, filterTree returns the node
\* it was given (the same object, with all its children), and the data the
\* App displays is the canonical root itself.
C11_BlankTermPassesThrough ==
    /\ (fnResult.done /\ trim(fnArgs.term) = <<>>) => fnResult.value = fnArgs.node
    /\ (fnArgs = NULL /\ trim(searchTerm) = <<>>) => filteredData = kernelData

\* a search for one space, typed while a filtered tree was displayed
C11_Witness ==
    /\ fnArgs = NULL
    /\ searchTerm = << " " >>
    /\ trim(lastEvent.before.searchTerm) # <<>>
    /\ lastEvent.before.filteredData # NULL
    /\ filteredData = kernelData

\* C12: right after handleSearchChange, no tree is displayed (filterTree
\* returned null for the root and no TreeNode is mounted) exactly if the term
\* is not blank and no node of the canonical tree matches it by itself;
\* otherwise the displayed tree has the root, and the root's TreeNode is
\* mounted.
C12_NoResultsExactlyIfNoMatch ==
    lastEvent.handler = "handleSearchChange" =>
        /\ (filteredData = NULL /\ DOMAIN isExpanded = {})
           <=> /\ trim(searchTerm) # <<>>
               /\ \A n \in NodesOf(kernelData) : ~ SelfMatches(n, searchTerm)
        /\ filteredData # NULL =>
               /\ filteredData.ref.pos = kernelData.ref.pos
               /\ sameValue(kernelData, [filteredData EXCEPT !.children = kernelData.children])
               /\ <<>> \in DOMAIN isExpanded

\* a term that matches nothing was typed while a tree was displayed
C12_Witness ==
    /\ lastEvent.handler = "handleSearchChange"
    /\ lastEvent.before.filteredData # NULL
    /\ trim(searchTerm) # <<>>
    /\ filteredData = NULL

\* the texts of the spans, one after the other
RECURSIVE ConcatSpans(_)
ConcatSpans(spans) ==
    IF spans = <<>> THEN <<>> ELSE Head(spans).text \o ConcatSpans(Tail(spans))

\* the lines with a line break between each two
RECURSIVE JoinLines(_)
JoinLines(lines) ==
    IF Len(lines) = 1 THEN ConcatSpans(lines[1])
    ELSE ConcatSpans(lines[1]) \o << "\n" >> \o JoinLines(Tail(lines))

LineBreaksIn(text) == Cardinality({ i \in 1..Len(text) : text[i] = "\n" })

\* C13: the texts of the spans HighlightText produces, put together in order,
\* are the input text; with as = "p" there is one sequence of spans for each
\* line, in order, and the lines with the line breaks put back are the input.
C13_SpansReconstructTheText ==
    fnResult.done =>
        /\ Len(fnResult.value.name) = 1
        /\ ConcatSpans(fnResult.value.name[1]) = fnArgs.node.name
        /\ Len(fnResult.value.summary) = 1
        /\ ConcatSpans(fnResult.value.summary[1]) = fnArgs.node.summary
        /\ Len(fnResult.value.description) = LineBreaksIn(fnArgs.node.description) + 1
        /\ JoinLines(fnResult.value.description) = fnArgs.node.description

\* two lines, the second with a match between two plain parts
C13_Witness ==
    /\ fnResult.done
    /\ Len(fnResult.value.description) = 2
    /\ Len(fnResult.value.description[2]) = 3
    /\ fnResult.value.description[2][2].matched
    /\ fnResult.value.description[2][1].text # <<>>

\* the node of root that the node kept was built from
OriginalOf(root, kept) == CHOOSE n \in NodesOf(root) : n.ref.pos = kept.ref.pos

\* the index among the children of its parent
IndexOf(node) == node.ref.pos[Len(node.ref.pos)]

\* C14: for every tree and term, the children of every node of the result of
\* filterTree are a subsequence of the children of the node it was built
\* from: each is one of them, and they come at strictly increasing indexes.
C14_ChildrenAreASubsequence ==
    (fnResult.done /\ fnResult.value # NULL) =>
        \A m \in NodesOf(fnResult.value) :
            LET n == OriginalOf(fnArgs.node, m)
            IN  \A j \in 1..Len(m.children) :
                    LET k == IndexOf(m.children[j])
                    IN  /\ k \in 1..Len(n.children)
                        /\ m.children[j].ref.pos = n.children[k].ref.pos
                        /\ m.children[j].name = n.children[k].name
                        /\ m.children[j].summary = n.children[k].summary
                        /\ m.children[j].description = n.children[k].description
                        /\ j > 1 => IndexOf(m.children[j - 1]) < k

\* two siblings with different texts that a non-blank term both keeps
C14_Witness ==
    /\ fnResult.done
    /\ trim(fnArgs.term) # <<>>
    /\ fnResult.value # NULL
    /\ Len(fnResult.value.children) = 2
    /\ fnResult.value.children[1].name # fnResult.value.children[2].name

\* term occurs in line at offset q, ignoring case
OccursAt(line, term, q) ==
    /\ q + Len(term) <= Len(line)
    /\ \A k \in 1..Len(term) : LowerChar(line[q + k]) = LowerChar(term[k])

\* the offsets of the leftmost non-overlapping occurrences of term from q on
RECURSIVE LeftmostOccurrences(_, _, _)
LeftmostOccurrences(line, term, q) ==
    IF q + Len(term) > Len(line) THEN {}
    ELSE IF OccursAt(line, term, q)
         THEN {q} \cup LeftmostOccurrences(line, term, q + Len(term))
         ELSE LeftmostOccurrences(line, term, q + 1)

\* the offset in the line at which the j-th span starts
SpanStart(spans, j) == Len(ConcatSpans(SubSeq(spans, 1, j - 1)))

\* the spans tagged matched are the leftmost non-overlapping occurrences of
\* term in the line the spans make up, and no other span is tagged matched
TagsExactlyTheOccurrences(spans, term) ==
    LET line == ConcatSpans(spans)
        tagged == { j \in 1..Len(spans) : spans[j].matched }
    IN  /\ \A j \in tagged : Len(spans[j].text) = Len(term)
        /\ { SpanStart(spans, j) : j \in tagged } = LeftmostOccurrences(line, term, 0)
        /\ \A j, k \in tagged : SpanStart(spans, j) = SpanStart(spans, k) => j = k

\* C15: for a term that is not blank, in every line HighlightText tags as
\* matched exactly the leftmost non-overlapping occurrences of the term,
\* ignoring case, and tags every other part as plain, whatever lastIndex the
\* shared regex carries from one regex.test to the next.
C15_TagsExactlyTheOccurrences ==
    (fnResult.done /\ trim(fnArgs.term) # <<>>) =>
        /\ \A i \in 1..Len(fnResult.value.name) :
               TagsExactlyTheOccurrences(fnResult.value.name[i], fnArgs.term)
        /\ \A i \in 1..Len(fnResult.value.summary) :
               TagsExactlyTheOccurrences(fnResult.value.summary[i], fnArgs.term)
        /\ \A i \in 1..Len(fnResult.value.description) :
               TagsExactlyTheOccurrences(fnResult.value.description[i], fnArgs.term)

\* an occurrence at the end of one line and one at the start of the next
C15_Witness ==
    /\ fnResult.done
    /\ trim(fnArgs.term) # <<>>
    /\ Len(fnResult.value.description) = 2
    /\ hasMatched(<< fnResult.value.description[1] >>)
    /\ hasMatched(<< fnResult.value.description[2] >>)

\* the TreeNode components that the last event mounted: the user has not
\* interacted with them
MountedByLastEvent ==
    IF lastEvent.before.filteredData = NULL
    THEN DOMAIN isExpanded
    ELSE DOMAIN isExpanded \ DOMAIN lastEvent.before.isExpanded

\* C16: while the search term is empty after trimming, the canonical tree is
\* displayed and no node is force-expanded: every TreeNode but the root that
\* was just mounted, so that the user has not toggled it, is collapsed.
C16_BlankTermIsInactive ==
    trim(searchTerm) = <<>> =>
        /\ filteredData = kernelData
        /\ \A kp \in MountedByLastEvent \ { <<>> } : ~ isExpanded[kp]

\* C17: in every state reached by search changes, interactions, breadcrumb
\* clicks and collapseAll, the displayed data is filterTree of the canonical
\* tree and the current search term: "no results" exactly if that is null,
\* and else the tree that filterTree builds (as objects of one allocation).
C17_DisplayedIsFilterOfCurrentTerm ==
    IF filteredData = NULL
    THEN filterTree(kernelData, searchTerm, 1) = NULL
    ELSE filteredData = filterTree(kernelData, searchTerm, filteredData.ref.gen)

\* after a collapseAll, a later search that drops nodes and an interaction
C17_Witness ==
    /\ visualizerKey >= 1
    /\ lastEvent.handler = "handleInteraction"
    /\ trim(searchTerm) # <<>>
    /\ selectedNode # NULL
    /\ Cardinality(NodesOf(filteredData)) < Cardinality(NodesOf(kernelData))

\* every object among objects that is a node of root has the name, summary,
\* description and children that the node has in root
Unmodified(root, objects) ==
    \A m \in objects : \A n \in NodesOf(root) : m.ref = n.ref => m = n

\* no object among objects is a node of root
AllNew(root, objects) ==
    \A m \in objects : \A n \in NodesOf(root) : m.ref # n.ref

\* the objects that the App holds
HeldByApp ==
    NodesOf(filteredData) \cup NodesOf(selectedNode)
    \cup UNION { NodesOf(selectedNodePath[i]) : i \in 1..Len(selectedNodePath) }

\* C18: no step changes the canonical tree. A call of filterTree leaves every
\* node of its input with its name, summary, description and children, and
\* with a term that is not blank every node of its result is a new object,
\* none of them a node of the input; the same holds of what the App holds
\* and displays.
C18_CanonicalTreeIsNeverModified ==
    /\ [][kernelData' = kernelData]_vars
    /\ [](fnResult.done =>
            /\ Unmodified(fnArgs.node, NodesOf(fnResult.value))
            /\ trim(fnArgs.term) # <<>> => AllNew(fnArgs.node, NodesOf(fnResult.value)))
    /\ [](fnArgs = NULL =>
            /\ Unmodified(kernelData, HeldByApp)
            /\ trim(searchTerm) # <<>> => AllNew(kernelData, NodesOf(filteredData)))

\* a result that keeps a node with fewer children than it has in the input
C18_Witness ==
    /\ fnResult.done
    /\ trim(fnArgs.term) # <<>>
    /\ fnResult.value # NULL
    /\ Len(fnResult.value.children) < Len(fnArgs.node.children)

\* C19: in every state, if nothing is selected the breadcrumb path is empty,
\* and a path that is not empty starts with the canonical root, ends with the
\* selected node (the same object) and goes from each element to one of its
\* children in the canonical tree.
C19_PathConsistentWithSelection ==
    /\ selectedNode = NULL => selectedNodePath = <<>>
    /\ selectedNodePath # <<>> =>
           /\ selectedNodePath[1] = kernelData
           /\ selectedNode # NULL
           /\ sameObject(selectedNodePath[Len(selectedNodePath)], selectedNode)
           /\ \A i \in 1..Len(selectedNodePath) :
                  selectedNodePath[i] \in NodesOf(kernelData)
           /\ \A i \in 1..(Len(selectedNodePath) - 1) :
                  selectedNodePath[i + 1] \in ChildrenOf(selectedNodePath[i])

\* a path of three elements, reached by a click on a breadcrumb button
C19_Witness ==
    /\ lastEvent.handler = "breadcrumbClick"
    /\ Len(lastEvent.before.selectedNodePath) = 3
    /\ Len(selectedNodePath) = 2

\* C20: right after handleSearchChange nothing is selected and the breadcrumb
\* path is empty, whatever was selected and whether or not it is still
\* displayed; the canonical tree and the visualizer key are what they were,
\* and every TreeNode that stays mounted keeps its expansion state.
C20_SearchChangeClearsSelectionOnly ==
    lastEvent.handler = "handleSearchChange" =>
        /\ searchTerm # lastEvent.before.searchTerm
        /\ selectedNode = NULL
        /\ selectedNodePath = <<>>
        /\ kernelData = lastEvent.before.kernelData
        /\ visualizerKey = lastEvent.before.visualizerKey
        /\ lastEvent.before.filteredData # NULL =>
               \A kp \in DOMAIN isExpanded \cap DOMAIN lastEvent.before.isExpanded :
                   isExpanded[kp] = lastEvent.before.isExpanded[kp]

\* the node that was selected, with a path, is displayed under the new term
C20_Witness ==
    /\ lastEvent.handler = "handleSearchChange"
    /\ lastEvent.before.selectedNodePath # <<>>
    /\ lastEvent.before.selectedNode \in NodesOf(filteredData)
    /\ lastEvent.before.selectedNode # kernelData
    /\ visualizerKey >= 1

\* C21: in every state the selected node, when there is one, is one of the
\* objects of the canonical tree or one of the objects of the filtered tree
\* that is displayed now, never an object of a filtered tree that a later
\* search term has replaced.
C21_SelectionIsCanonicalOrDisplayed ==
    selectedNode # NULL =>
        selectedNode \in NodesOf(kernelData) \cup NodesOf(filteredData)

\* a node of a filtered tree is selected, and that tree was built while an
\* earlier filtered tree was displayed
C21_Witness ==
    /\ lastEvent.handler = "handleInteraction"
    /\ selectedNode # NULL
    /\ selectedNode.ref.gen = 2
    /\ selectedNode \in NodesOf(filteredData)

====
